---- MODULE Spec2Model ----
(***************************************************************************)
(* The tile organizer and navigation state machine of the point cloud      *)
(* visualizer, src/static/js/main.js.  The file holds two variants of the  *)
(* class PointCloudVisualizer: the "dense" one (lines 1-460, derived grid, *)
(* multiplier 1.2) and the "fixed3x3" one (lines 461-941, nine tiles,      *)
(* multiplier 2.0).  The variable variant says which one is running.       *)
(* A third class, src/staticfiles/js/main.js, walks through the files by   *)
(* index ("fileIndex"); its fields are the variables below idxFiles.       *)
(*                                                                         *)
(* Asynchrony: the browser runs one handler at a time.  A handler runs to  *)
(* its first pending await; the continuation after an await runs in the    *)
(* same step as the loader callback that settles the awaited promise.      *)
(* Loader callbacks (PLYLoader.load) of different requests arrive in any   *)
(* order, and each may report success or an error.                         *)
(*                                                                         *)
(* Arithmetic is exact: bounding boxes have integer corners, centers are   *)
(* kept doubled (cx2 = min + max) and tileSize is a reduced fraction.      *)
(* Division by a zero tileSize gives NaN or Infinity as in JavaScript.     *)
(***************************************************************************)
EXTENDS Integers, Sequences, FiniteSets, TLC

\* ------------------------------------------------------------------ bounds
\* folder selections of a session with re-selection (SpecReselect)
MaxSelections == 2
\* longest collection of a session with more than one selection
MaxShort == 3
\* accepted moves of a session with more than one selection
MaxReMoves == 1
\* accepted moves of a session with one selection
MaxMoves == 2
\* loadCurrentTile calls with a load in flight at the same time
MaxInFlight == 2
\* loader errors (extraction or load) per session
MaxFailures == 1
\* longest collection offered to the fixed3x3 variant
MaxFiles == 10
\* fileIndex class: folder selections, navigate calls, loads in flight at
\* the same time and loader errors of a session
MaxIdxSelections == 2
MaxIdxMoves == 2
MaxIdxLoads == 3
MaxIdxFailures == 1

\* --------------------------------------------------------------- JS numbers
\* The values a tile coordinate can take: an integer, NaN or +Infinity.
Num(i) == [k |-> "num", v |-> i]
NaN == [k |-> "NaN", v |-> 0]
Infinity == [k |-> "Infinity", v |-> 0]
IsNum(a) == a.k = "num"

\* a + 1 and a - 1
JsInc(a) == IF IsNum(a) THEN Num(a.v + 1) ELSE a
JsDec(a) == IF IsNum(a) THEN Num(a.v - 1) ELSE a

\* a <= b and a < b; every comparison with NaN is false
JsLe(a, b) ==
    CASE a.k = "NaN" \/ b.k = "NaN" -> FALSE
      [] b.k = "Infinity" -> TRUE
      [] a.k = "Infinity" -> FALSE
      [] OTHER -> a.v <= b.v
JsLt(a, b) ==
    CASE a.k = "NaN" \/ b.k = "NaN" -> FALSE
      [] a.k = "Infinity" -> FALSE
      [] b.k = "Infinity" -> TRUE
      [] OTHER -> a.v < b.v

\* Math.floor(p / q) and Math.ceil(p / q) for integers p >= 0, q >= 0
JsFloorDiv(p, q) ==
    IF q = 0 THEN (IF p = 0 THEN NaN ELSE Infinity) ELSE Num(p \div q)
JsCeilDiv(p, q) ==
    IF q = 0 THEN (IF p = 0 THEN NaN ELSE Infinity) ELSE Num((p + q - 1) \div q)

\* Math.floor(a / 2)
JsHalf(a) == IF IsNum(a) THEN Num(a.v \div 2) ELSE a

\* `${a}` : the text of a number in a template literal
NumStr(a) == IF IsNum(a) THEN ToString(a.v) ELSE a.k

\* `${x},${y}` : the key of a tile in allTileFiles and initialTileFiles
TileKey(x, y) == NumStr(x) \o "," \o NumStr(y)

\* ------------------------------------------------------------------ helpers
Min2(a, b) == IF a < b THEN a ELSE b
Max2(a, b) == IF a > b THEN a ELSE b

RECURSIVE Gcd(_, _)
Gcd(a, b) == IF b = 0 THEN a ELSE Gcd(b, a % b)

\* the fraction p/q (p >= 0, q > 0) in lowest terms
Frac(p, q) == LET g == Gcd(p, q) IN [n |-> p \div g, d |-> q \div g]

\* a coordinate of a world point: the fraction n/d in lowest terms, or NaN,
\* or +Infinity
Abs(a) == IF a < 0 THEN 0 - a ELSE a
Real(n, d) == LET g == Gcd(Abs(n), d) IN [k |-> "num", n |-> n \div g, d |-> d \div g]
RealNaN == [k |-> "NaN", n |-> 0, d |-> 1]
RealInfinity == [k |-> "Infinity", n |-> 0, d |-> 1]

Range(s) == {s[i] : i \in 1..Len(s)}

\* a JS Map from keys to arrays, as a function; get(k) || []
EmptyMap == [k \in {} |-> <<>>]
MapGet(m, k) == IF k \in DOMAIN m THEN m[k] ELSE <<>>
MapSet(m, k, val) == [x \in (DOMAIN m) \cup {k} |-> IF x = k THEN val ELSE m[x]]

\* ----------------------------------------------------------------- datasets
\* The files the user can select, by name; a name identifies one file.  The
\* bounding box the loader computes for each: file 1 is a 10 x 10 box, file
\* 2 an 8 x 8 box with the same center, file 3 a single point on the right
\* of both, and the further files are 2 x 2 boxes on a diagonal.
BBox(f) ==
    CASE f = 1 -> [minX |-> 0, maxX |-> 10, minY |-> 0, maxY |-> 10]
      [] f = 2 -> [minX |-> 1, maxX |-> 9, minY |-> 1, maxY |-> 9]
      [] f = 3 -> [minX |-> 12, maxX |-> 12, minY |-> 0, maxY |-> 0]
      [] OTHER -> [minX |-> 3 * f, maxX |-> 3 * f + 2, minY |-> f, maxY |-> f + 2]

\* what extractCoordinatesFromFile resolves with (the centers doubled)
Coords(f) ==
    LET b == BBox(f)
    IN [cx2 |-> b.maxX + b.minX, cy2 |-> b.maxY + b.minY,
        extentX |-> b.maxX - b.minX, extentY |-> b.maxY - b.minY,
        minX |-> b.minX, maxX |-> b.maxX, minY |-> b.minY, maxY |-> b.maxY]

\* a map that puts a new key in front of the others
CoordSetFront(fc, name) == IF name \in Range(fc) THEN fc ELSE <<name>> \o fc

\* fileCoordinates.set(name, coords): a Map keeps the insertion order and a
\* key that is already present keeps its place
CoordSet(fc, name) == IF name \in Range(fc) THEN fc ELSE Append(fc, name)

\* ---------------------------------------------------------------- variables
VARIABLES
    variant,              \* "dense" or "fixed3x3": which class is running
    plyFiles,             \* this.plyFiles: the selected files, in input order
    fileCoordinates,      \* this.fileCoordinates: the names with coordinates, in insertion order
    allTileFiles,         \* this.allTileFiles: tile key -> array of tile files
    initialTileFiles,     \* this.initialTileFiles: tile key -> [first tile file]
    initialTilesLoaded,   \* this.initialTilesLoaded
    currentTile,          \* this.currentTile: [x, y]
    tileSize,             \* this.tileSize, a fraction [n, d]
    minX, maxX, minY, maxY, \* this.minX .. this.maxY
    currentPointClouds,   \* this.currentPointClouds: the resident point clouds, in push order
    scene,                \* the point clouds among this.scene's children, in add order
    target,               \* this.controls.target: the world point of the last focus, [x, y]
    passes,               \* the handleFolderSelection calls suspended at an await
    tasks,                \* the loadCurrentTile calls suspended at an await
    hung,                 \* a handler is in a loop that never ends: the page is frozen
    maxSel,               \* the folder selections this session may make; never changes
    nSel, nMoves, nFail,  \* selections, accepted moves and loader errors so far
    last,                 \* history: the handler or callback that ran last
    track,                \* history: the analysis pass that finished its extraction last
    act,                  \* history: the activation started by the last accepted navigate
    idxFiles,             \* fileIndex class: this.plyFiles, sorted by name
    currentFileIndex,     \* this.currentFileIndex
    loadedPointClouds,    \* this.loadedPointClouds: file name -> the Points object stored last
    idxScene,             \* the Points objects among this.scene's children
    currentPointCloud,    \* this.currentPointCloud: [name, points] or NoCloud
    adjacentPointCloud,   \* this.adjacentPointCloud: [name, points] or NoCloud
    idxTarget,            \* this.controls.target
    loads,                \* the loadAndVisualizeFile calls whose loader has not called back
    nIdxSel, nIdxMoves, nIdxFail, nIdxLoads, \* selections, navigate calls, loader errors, loads started
    idxLast               \* history: the handler or callback of the fileIndex class that ran last

progVars == <<variant, plyFiles, fileCoordinates, allTileFiles, initialTileFiles,
              initialTilesLoaded, currentTile, tileSize, minX, maxX, minY, maxY,
              currentPointClouds, scene, target, passes, tasks, hung>>
vars == <<variant, plyFiles, fileCoordinates, allTileFiles, initialTileFiles,
          initialTilesLoaded, currentTile, tileSize, minX, maxX, minY, maxY,
          currentPointClouds, scene, target, passes, tasks, hung, maxSel, nSel, nMoves,
          nFail, last, track, act,
          idxFiles, currentFileIndex, loadedPointClouds, idxScene, currentPointCloud,
          adjacentPointCloud, idxTarget, loads, nIdxSel, nIdxMoves, nIdxFail, nIdxLoads,
          idxLast>>

\* the fields of the fileIndex class, and all its variables
idxProgVars == <<idxFiles, currentFileIndex, loadedPointClouds, idxScene, currentPointCloud,
                 adjacentPointCloud, idxTarget, loads>>
idxVars == <<idxFiles, currentFileIndex, loadedPointClouds, idxScene, currentPointCloud,
             adjacentPointCloud, idxTarget, loads, nIdxSel, nIdxMoves, nIdxFail, nIdxLoads,
             idxLast>>

\* ------------------------------------------------------------ the organizer
\* the multiplier of calculateGridOrganization: 1.2 (dense), 2.0 (fixed3x3)
Multiplier(v) == IF v = "dense" THEN [n |-> 6, d |-> 5] ELSE [n |-> 2, d |-> 1]

RECURSIVE SumExtent(_, _, _)
SumExtent(fc, i, axis) ==
    IF i > Len(fc) THEN 0
    ELSE (IF axis = "x" THEN Coords(fc[i]).extentX ELSE Coords(fc[i]).extentY)
         + SumExtent(fc, i + 1, axis)

SetMin(S) == CHOOSE m \in S : \A n \in S : m <= n
SetMax(S) == CHOOSE m \in S : \A n \in S : m >= n

\* calculateGridOrganization up to the call of organizeFilesIntoTiles: the
\* bounds and the tile size for the (non-empty) fileCoordinates fc
GridFrame(v, fc) ==
    LET S == Range(fc)
        total == Max2(SumExtent(fc, 1, "x"), SumExtent(fc, 1, "y"))
        m == Multiplier(v)
    IN [minX |-> SetMin({Coords(f).minX : f \in S}),
        maxX |-> SetMax({Coords(f).maxX : f \in S}),
        minY |-> SetMin({Coords(f).minY : f \in S}),
        maxY |-> SetMax({Coords(f).maxY : f \in S}),
        tileSize |-> Frac(m.n * total, m.d * Len(fc))]

\* Math.floor((center - min) / tileSize), the center doubled
TileIndex(c2, lo, ts) == JsFloorDiv((c2 - 2 * lo) * ts.d, 2 * ts.n)

\* Math.ceil((max - min) / tileSize)
TotalTiles(lo, hi, ts) == JsCeilDiv((hi - lo) * ts.d, ts.n)

\* one element of a tile's array
TileFile(f, x, y) == [file |-> f, tileX |-> x, tileY |-> y]

\* the names of the files in a tile's array, in order
RECURSIVE FileNames(_)
FileNames(tfs) == IF tfs = <<>> THEN <<>> ELSE <<tfs[1].file>> \o FileNames(Tail(tfs))

\* a dense organizeFilesIntoTiles in which a file replaces the array of its
\* tile instead of being pushed on it
DenseTilesOverwrite(fc, files, fr) ==
    LET RECURSIVE Go(_, _)
        Go(i, m) ==
            IF i > Len(fc) THEN m
            ELSE LET name == fc[i]
                     tx == TileIndex(Coords(name).cx2, fr.minX, fr.tileSize)
                     ty == TileIndex(Coords(name).cy2, fr.minY, fr.tileSize)
                 IN IF name \in Range(files)
                    THEN Go(i + 1, MapSet(m, TileKey(tx, ty), <<TileFile(name, tx, ty)>>))
                    ELSE Go(i + 1, m)
    IN Go(1, EmptyMap)

\* dense organizeFilesIntoTiles, the loop over fileCoordinates: each name
\* that plyFiles.find() finds is pushed on the array of its tile
DenseTiles(fc, files, fr) ==
    LET RECURSIVE Go(_, _)
        Go(i, m) ==
            IF i > Len(fc) THEN m
            ELSE LET name == fc[i]
                     tx == TileIndex(Coords(name).cx2, fr.minX, fr.tileSize)
                     ty == TileIndex(Coords(name).cy2, fr.minY, fr.tileSize)
                     key == TileKey(tx, ty)
                 IN IF name \in Range(files)
                    THEN Go(i + 1, MapSet(m, key, Append(MapGet(m, key), TileFile(name, tx, ty))))
                    ELSE Go(i + 1, m)
    IN Go(1, EmptyMap)

\* a fixed3x3 organizeFilesIntoTiles that goes on after the ninth file: the
\* tenth is pushed on the first tile, and so on
FixedTilesWrap(fc, files) ==
    LET RECURSIVE Slot(_, _)
        Slot(k, i) ==
            IF i > Len(files) THEN <<>>
            ELSE (IF (i - 1) % 9 = k /\ files[i] \in Range(fc)
                  THEN <<TileFile(files[i], Num(k \div 3), Num(k % 3))>> ELSE <<>>)
                 \o Slot(k, i + 1)
        KeyOf(k) == TileKey(Num(k \div 3), Num(k % 3))
    IN [key \in {KeyOf(k) : k \in 0..8} |-> Slot(CHOOSE k \in 0..8 : KeyOf(k) = key, 1)]

\* a fixed3x3 organizeFilesIntoTiles with y in the outer loop and x in the
\* inner one
FixedTilesYOuter(fc, files) ==
    LET KeyOf(k) == TileKey(Num(k % 3), Num(k \div 3))
        Slot(k) == IF k < Min2(9, Len(files)) /\ files[k + 1] \in Range(fc)
                   THEN <<TileFile(files[k + 1], Num(k % 3), Num(k \div 3))>> ELSE <<>>
    IN [key \in {KeyOf(k) : k \in 0..8} |-> Slot(CHOOSE k \in 0..8 : KeyOf(k) = key)]

\* fixed3x3 organizeFilesIntoTiles: nine empty tiles, then the first nine
\* files one per tile, x in the outer loop and y in the inner one; a file
\* without coordinates leaves its tile empty
FixedTiles(fc, files) ==
    LET filesToUse == SubSeq(files, 1, Min2(9, Len(files)))
        RECURSIVE Go(_, _)
        Go(k, m) ==
            IF k > 8 THEN m
            ELSE LET x == Num(k \div 3)
                     y == Num(k % 3)
                     key == TileKey(x, y)
                 IN IF k < Len(filesToUse) /\ filesToUse[k + 1] \in Range(fc)
                    THEN Go(k + 1, MapSet(m, key, <<TileFile(filesToUse[k + 1], x, y)>>))
                    ELSE Go(k + 1, MapSet(m, key, <<>>))
    IN Go(0, EmptyMap)

\* an organizeFilesIntoTiles that leaves the current tile where it is
InitialTileKept(v, fr) == currentTile

\* the tile organizeFilesIntoTiles makes current
InitialTile(v, fr) ==
    IF v = "dense"
    THEN [x |-> JsHalf(TotalTiles(fr.minX, fr.maxX, fr.tileSize)),
          y |-> JsHalf(TotalTiles(fr.minY, fr.maxY, fr.tileSize))]
    ELSE [x |-> Num(1), y |-> Num(1)]

\* calculateGridOrganization(): what it leaves in minX .. maxY, tileSize,
\* allTileFiles and currentTile when fileCoordinates is fc and plyFiles is
\* files; with no coordinates at all it returns at once
calculateGridOrganization(fc, files) ==
    IF Len(fc) = 0
    THEN [minX |-> minX, maxX |-> maxX, minY |-> minY, maxY |-> maxY,
          tileSize |-> tileSize, allTileFiles |-> allTileFiles,
          currentTile |-> currentTile, organized |-> FALSE]
    ELSE LET fr == GridFrame(variant, fc)
         IN [minX |-> fr.minX, maxX |-> fr.maxX, minY |-> fr.minY, maxY |-> fr.maxY,
             tileSize |-> fr.tileSize,
             allTileFiles |-> IF variant = "dense" THEN DenseTiles(fc, files, fr)
                              ELSE FixedTiles(fc, files),
             currentTile |-> InitialTile(variant, fr), organized |-> TRUE]

\* isValidTilePosition(tileX, tileY) of the dense variant
isValidTilePosition(tx, ty) ==
    /\ JsLe(Num(0), tx) /\ JsLt(tx, TotalTiles(minX, maxX, tileSize))
    /\ JsLe(Num(0), ty) /\ JsLt(ty, TotalTiles(minY, maxY, tileSize))

\* ------------------------------------------------------------------ inputs
\* the files offered to the dense variant
DenseFiles == {1, 2, 3}

\* The folders the user can select, as the sequence of their .ply files.
\* Dense variant: collections of the files of DenseFiles.  Fixed3x3 variant:
\* the files 1 .. n in this order, for some n up to MaxFiles.  The empty
\* sequence is a folder without any .ply file.
Collections(v) ==
    IF v = "dense"
    THEN {<<>>, <<1, 2, 3>>, <<2, 1, 3>>, <<1, 3>>, <<3>>}
    ELSE {[i \in 1..n |-> i] : n \in {0, 1, 2, 5, MaxFiles}}

Directions == {"left", "right", "up", "down"}

\* ------------------------------------------------------------ small helpers
\* an analyzeAllFiles in which an extraction error throws the coordinates
\* found so far away
ExtractedOrReset(fc, name, ok) == IF ok THEN CoordSet(fc, name) ELSE <<>>

\* the body of the loop of analyzeAllFiles: fileCoordinates after the
\* extraction of file name has settled; the catch only logs
Extracted(fc, name, ok) == IF ok THEN CoordSet(fc, name) ELSE fc

SeqRemove(s, i) == SubSeq(s, 1, i - 1) \o SubSeq(s, i + 1, Len(s))

\* s without the first occurrence of e
RECURSIVE RemoveOne(_, _)
RemoveOne(s, e) ==
    IF s = <<>> THEN <<>>
    ELSE IF Head(s) = e THEN Tail(s) ELSE <<Head(s)>> \o RemoveOne(Tail(s), e)

\* a clearCurrentPointClouds that leaves the scene as it is
RemoveNone(s, gone) ==
    s

\* scene.remove(pointCloud) for every pointCloud of gone
RECURSIVE RemoveEach(_, _)
RemoveEach(s, gone) ==
    IF gone = <<>> THEN s ELSE RemoveEach(RemoveOne(s, Head(gone)), Tail(gone))

\* c * tileSize: an offset measured from tile (0, 0) instead of the center tile
OffsetUncentred(c, ts) ==
    CASE c.k = "NaN" -> RealNaN
      [] c.k = "Infinity" -> IF ts.n = 0 THEN RealNaN ELSE RealInfinity
      [] OTHER -> Real(c.v * ts.n, ts.d)

\* (c - 1) * tileSize and lo + (c + 0.5) * tileSize for a tile coordinate c
Offset(c, ts) ==
    CASE c.k = "NaN" -> RealNaN
      [] c.k = "Infinity" -> IF ts.n = 0 THEN RealNaN ELSE RealInfinity
      [] OTHER -> Real((c.v - 1) * ts.n, ts.d)
WorldCoord(lo, c, ts) ==
    CASE c.k = "NaN" -> RealNaN
      [] c.k = "Infinity" -> IF ts.n = 0 THEN RealNaN ELSE RealInfinity
      [] OTHER -> Real(2 * lo * ts.d + (2 * c.v + 1) * ts.n, 2 * ts.d)

\* the THREE.Points object loadFileForTile builds for a tile file, with its
\* position: the default (0, 0) in the dense variant, the offset of the tile
\* in the fixed3x3 variant
Points(tf, ts) ==
    IF variant = "dense"
    THEN [name |-> tf.file, x |-> Real(0, 1), y |-> Real(0, 1)]
    ELSE [name |-> tf.file, x |-> Offset(tf.tileX, ts), y |-> Offset(tf.tileY, ts)]

\* the point focusOnCurrentTile makes the target of the camera
focusOnCurrentTile(c, ts, lox, loy) ==
    IF variant = "dense"
    THEN [x |-> WorldCoord(lox, c.x, ts), y |-> WorldCoord(loy, c.y, ts)]
    ELSE [x |-> Offset(c.x, ts), y |-> Offset(c.y, ts)]

NoTileFile == TileFile(0, NaN, NaN)

\* a handleFolderSelection call that has just entered analyzeAllFiles
NewPass(files, clean) ==
    [files |-> files, pc |-> "extract", i |-> 1, failed |-> {}, clean |-> clean,
     cx |-> NaN, cy |-> NaN, x |-> NaN, y |-> NaN, cur |-> NoTileFile]

\* an entry of the history variable last
Event(op, res) == [op |-> op, res |-> res]

NoAct == [on |-> FALSE, all |-> FALSE, isolated |-> FALSE, stale |-> FALSE,
          want |-> <<>>, tried |-> {}, failed |-> {}, settled |-> FALSE]

\* --------------------------------------------------------------------- Init
\* this.currentPointCloud = null
NoCloud == [name |-> 0, points |-> 0]

\* an offset (x, y, z)
Offset3(x, y, z) == [x |-> x, y |-> y, z |-> z]

\* the constructor of the fileIndex class
IdxConstructed ==
    /\ idxFiles = <<>>
    /\ currentFileIndex = 0
    /\ loadedPointClouds = EmptyMap
    /\ idxScene = {}
    /\ currentPointCloud = NoCloud
    /\ adjacentPointCloud = NoCloud
    /\ idxTarget = Offset3(0, 0, 0)
    /\ loads = <<>>
    /\ nIdxSel = 0 /\ nIdxMoves = 0 /\ nIdxFail = 0 /\ nIdxLoads = 0
    /\ idxLast = Event("init", "-")

\* the constructor of a tile class
TileConstructed(sel) ==
    /\ maxSel = sel
    /\ plyFiles = <<>>
    /\ fileCoordinates = <<>>
    /\ allTileFiles = EmptyMap
    /\ initialTileFiles = EmptyMap
    /\ initialTilesLoaded = FALSE
    /\ currentTile = [x |-> Num(0), y |-> Num(0)]
    /\ tileSize = [n |-> 50, d |-> 1]
    /\ minX = 0 /\ maxX = 0 /\ minY = 0 /\ maxY = 0
    /\ currentPointClouds = <<>>
    /\ scene = <<>>
    /\ target = [x |-> Real(0, 1), y |-> Real(0, 1)]
    /\ passes = <<>>
    /\ tasks = <<>>
    /\ hung = FALSE
    /\ nSel = 0 /\ nFail = 0 /\ nMoves = 0
    /\ last = Event("init", "-")
    /\ track = [files |-> <<>>, failed |-> {}, clean |-> FALSE, organized |-> FALSE]
    /\ act = NoAct

\* the constructor, in a session of at most sel folder selections
Start(sel) ==
    /\ variant \in {"dense", "fixed3x3"}
    /\ TileConstructed(sel)
    /\ IdxConstructed

\* a session in which the user selects a folder once
Init == Start(1)

\* a session in which the user selects folders again
InitReselect == Start(MaxSelections)

\* --------------------------------------------------------- loadInitialTiles
\* The loops of the dense loadInitialTiles from the test of the inner loop
\* at (x, y) on, up to the next await: "await" at the first tile with files,
\* "end" when the outer loop is over, "hang" when a loop variable is
\* Infinity and no tile on its way has files.
RECURSIVE ScanInitial(_, _, _, _, _)
ScanInitial(cx, cy, x, y, tiles) ==
    IF ~JsLe(x, JsInc(cx)) THEN [kind |-> "end", x |-> x, y |-> y]
    ELSE IF JsLe(y, JsInc(cy))
         THEN IF Len(MapGet(tiles, TileKey(x, y))) > 0
              THEN [kind |-> "await", x |-> x, y |-> y]
              ELSE IF y = Infinity THEN [kind |-> "hang", x |-> x, y |-> y]
                   ELSE ScanInitial(cx, cy, x, JsInc(y), tiles)
         ELSE IF x = Infinity THEN [kind |-> "hang", x |-> x, y |-> y]
              ELSE ScanInitial(cx, cy, JsInc(x), JsDec(cy), tiles)

\* loadInitialTiles from its start up to the first await
InitialStart(c, tiles) ==
    IF variant = "dense"
    THEN ScanInitial(c.x, c.y, JsDec(c.x), JsDec(c.y), tiles)
    ELSE IF Len(MapGet(tiles, TileKey(c.x, c.y))) > 0
         THEN [kind |-> "await", x |-> c.x, y |-> c.y]
         ELSE [kind |-> "end", x |-> c.x, y |-> c.y]

\* loadInitialTiles from the return of the await at (r.x, r.y) on
InitialResume(r, tiles) ==
    IF variant = "dense"
    THEN ScanInitial(r.cx, r.cy, r.x, JsInc(r.y), tiles)
    ELSE [kind |-> "end", x |-> r.x, y |-> r.y]

\* a loadInitialTiles that takes the last file of a tile
lastFile(allFiles) ==
    allFiles[Len(allFiles)]

\* const firstFile = allFiles[0]
firstFile(allFiles) ==
    allFiles[1]

\* loadInitialTiles of pass p (its record is r) arrives at res: it awaits
\* the first file of a tile, or sets initialTilesLoaded, focuses and
\* returns, or never returns.  itf is initialTileFiles before, foc the point
\* focusOnCurrentTile computes.
InitialArrives(p, r, res, tiles, itf, foc) ==
    LET key == TileKey(res.x, res.y)
        first == firstFile(MapGet(tiles, key))
    IN CASE res.kind = "await" ->
              /\ initialTileFiles' = MapSet(itf, key, <<first>>)
              /\ passes' = [passes EXCEPT ![p] =
                     [r EXCEPT !.pc = "initial", !.x = res.x, !.y = res.y, !.cur = first]]
              /\ UNCHANGED <<initialTilesLoaded, target, hung>>
         [] res.kind = "end" ->
              /\ initialTileFiles' = itf
              /\ passes' = SeqRemove(passes, p)
              /\ initialTilesLoaded' = TRUE
              /\ target' = foc
              /\ UNCHANGED hung
         [] OTHER ->
              /\ initialTileFiles' = itf
              /\ passes' = SeqRemove(passes, p)
              /\ hung' = TRUE
              /\ UNCHANGED <<initialTilesLoaded, target>>

\* ------------------------------------------------------------------ actions
\* handleFolderSelection(event) up to its first await: with no .ply file it
\* alerts and returns; otherwise it stores the files, resets
\* initialTilesLoaded, and analyzeAllFiles clears fileCoordinates and starts
\* the extraction of the first file.
handleFolderSelection(files) ==
    /\ ~hung
    /\ UNCHANGED idxVars
    /\ nSel < maxSel
    /\ nSel = 0 \/ (Len(plyFiles) <= MaxShort /\ Len(files) <= MaxShort
                    /\ nMoves <= MaxReMoves)
    /\ IF Len(files) = 0
       THEN /\ last' = Event("select", "alert")
            /\ UNCHANGED <<progVars, maxSel, nSel, nMoves, nFail, track, act>>
       ELSE /\ plyFiles' = files
            /\ initialTilesLoaded' = FALSE
            /\ fileCoordinates' = <<>>
            /\ passes' = Append(
                   [q \in 1..Len(passes) |->
                       IF passes[q].pc = "extract"
                       THEN [passes[q] EXCEPT !.clean = FALSE] ELSE passes[q]],
                   NewPass(files, \A q \in 1..Len(passes) : passes[q].pc # "extract"))
            /\ nSel' = nSel + 1
            /\ last' = Event("select", "ok")
            /\ act' = [act EXCEPT !.on = FALSE]
            /\ UNCHANGED <<variant, allTileFiles, initialTileFiles, currentTile, tileSize,
                           minX, maxX, minY, maxY, currentPointClouds, scene, target,
                           tasks, hung, maxSel, nMoves, nFail, track>>

\* analyzeAllFiles: the extraction of a file that is not the last one of the
\* loop settles; the coordinates are stored, or the error is logged, and the
\* extraction of the next file starts
extractNext(p, ok) ==
    /\ ~hung
    /\ UNCHANGED idxVars
    /\ p \in 1..Len(passes)
    /\ passes[p].pc = "extract"
    /\ passes[p].i < Len(passes[p].files)
    /\ ok \/ nFail < MaxFailures
    /\ LET r == passes[p]
           name == r.files[r.i]
       IN /\ fileCoordinates' = Extracted(fileCoordinates, name, ok)
          /\ passes' = [passes EXCEPT ![p] =
                 [r EXCEPT !.i = r.i + 1,
                           !.failed = IF ok THEN r.failed ELSE r.failed \cup {name}]]
    /\ nFail' = IF ok THEN nFail ELSE nFail + 1
    /\ last' = Event("extract", IF ok THEN "ok" ELSE "error")
    /\ UNCHANGED <<variant, plyFiles, allTileFiles, initialTileFiles, initialTilesLoaded,
                   currentTile, tileSize, minX, maxX, minY, maxY, currentPointClouds,
                   scene, target, tasks, hung, maxSel, nSel, nMoves, track, act>>

\* The extraction of the last file of the loop settles: analyzeAllFiles
\* returns, handleFolderSelection calls calculateGridOrganization and then
\* loadInitialTiles, which clears the resident point clouds and
\* initialTileFiles and runs to its first await.
extractLast(p, ok) ==
    /\ ~hung
    /\ UNCHANGED idxVars
    /\ p \in 1..Len(passes)
    /\ passes[p].pc = "extract"
    /\ passes[p].i = Len(passes[p].files)
    /\ ok \/ nFail < MaxFailures
    /\ LET r == passes[p]
           name == r.files[r.i]
           fc == Extracted(fileCoordinates, name, ok)
           failed == IF ok THEN r.failed ELSE r.failed \cup {name}
           g == calculateGridOrganization(fc, plyFiles)
           center == g.currentTile
       IN /\ fileCoordinates' = fc
          /\ minX' = g.minX /\ maxX' = g.maxX /\ minY' = g.minY /\ maxY' = g.maxY
          /\ tileSize' = g.tileSize
          /\ allTileFiles' = g.allTileFiles
          /\ currentTile' = g.currentTile
          /\ currentPointClouds' = <<>>
          /\ scene' = RemoveEach(scene, currentPointClouds)
          /\ InitialArrives(p, [r EXCEPT !.failed = failed, !.cx = center.x, !.cy = center.y],
                            InitialStart(center, g.allTileFiles), g.allTileFiles, EmptyMap,
                            focusOnCurrentTile(center, g.tileSize, g.minX, g.minY))
          /\ track' = [files |-> r.files, failed |-> failed, clean |-> r.clean,
                       organized |-> g.organized]
    /\ nFail' = IF ok THEN nFail ELSE nFail + 1
    /\ last' = Event("analysed", IF ok THEN "ok" ELSE "error")
    /\ UNCHANGED <<variant, plyFiles, tasks, maxSel, nSel, nMoves, act>>

\* loadInitialTiles: the awaited load settles.  On success the point cloud
\* becomes resident and the loops go on to the next await or to the end; on
\* an error the promise rejects and handleFolderSelection ends there.
initialLoadSettled(p, ok) ==
    /\ ~hung
    /\ UNCHANGED idxVars
    /\ p \in 1..Len(passes)
    /\ passes[p].pc = "initial"
    /\ ok \/ nFail < MaxFailures
    /\ LET r == passes[p]
       IN IF ok
          THEN /\ currentPointClouds' = Append(currentPointClouds, Points(r.cur, tileSize))
               /\ scene' = Append(scene, Points(r.cur, tileSize))
               /\ InitialArrives(p, r, InitialResume(r, allTileFiles), allTileFiles,
                                 initialTileFiles,
                                 focusOnCurrentTile(currentTile, tileSize, minX, minY))
          ELSE /\ passes' = SeqRemove(passes, p)
               /\ UNCHANGED <<currentPointClouds, scene, initialTileFiles,
                              initialTilesLoaded, target, hung>>
    /\ nFail' = IF ok THEN nFail ELSE nFail + 1
    /\ last' = Event("initialLoad", IF ok THEN "ok" ELSE "error")
    /\ UNCHANGED <<variant, plyFiles, fileCoordinates, allTileFiles, currentTile, tileSize,
                   minX, maxX, minY, maxY, tasks, maxSel, nSel, nMoves, track, act>>

\* a navigate with the vertical axis of the screen: up decrements y
DestinationScreen(c, direction) ==
    CASE direction = "left" -> [x |-> JsDec(c.x), y |-> c.y]
      [] direction = "right" -> [x |-> JsInc(c.x), y |-> c.y]
      [] direction = "up" -> [x |-> c.x, y |-> JsDec(c.y)]
      [] direction = "down" -> [x |-> c.x, y |-> JsInc(c.y)]

\* the destination of navigate(direction) from tile c
Destination(c, direction) ==
    CASE direction = "left" -> [x |-> JsDec(c.x), y |-> c.y]
      [] direction = "right" -> [x |-> JsInc(c.x), y |-> c.y]
      [] direction = "up" -> [x |-> c.x, y |-> JsInc(c.y)]
      [] direction = "down" -> [x |-> c.x, y |-> JsDec(c.y)]

\* the fixed3x3 test newTileX >= 0 && newTileX < 3 && newTileY >= 0 && newTileY < 3
InFixedGrid(t) ==
    /\ JsLe(Num(0), t.x) /\ JsLt(t.x, Num(3))
    /\ JsLe(Num(0), t.y) /\ JsLt(t.y, Num(3))

\* a navigate that moves to tiles with files only, in both variants
AcceptsOnlyFilled(t) == Len(MapGet(allTileFiles, TileKey(t.x, t.y))) > 0

\* a navigate that moves to every tile inside the grid, in both variants
AcceptsInGrid(t) ==
    IF variant = "dense" THEN isValidTilePosition(t.x, t.y) ELSE InFixedGrid(t)

\* the condition under which navigate makes t the current tile
Accepts(t) ==
    IF variant = "dense"
    THEN TileKey(t.x, t.y) \in DOMAIN allTileFiles \/ isValidTilePosition(t.x, t.y)
    ELSE InFixedGrid(t) /\ Len(MapGet(allTileFiles, TileKey(t.x, t.y))) > 0

\* a get that creates the array of a key it does not find
StoreAfterGetInserts(m, key) == IF key \in DOMAIN m THEN m ELSE MapSet(m, key, <<>>)

\* allTileFiles after this.allTileFiles.get(key) || [] in loadCurrentTile
\* and navigate: the default array is not stored
StoreAfterGet(m, key) == m

\* a navigate without the test of the size of allTileFiles
NoTilesSkipped(m) ==
    FALSE

\* this.allTileFiles.size === 0
NoTiles(m) ==
    DOMAIN m = {}

\* the files loadCurrentTile loads for tile t
FilesToLoad(t) ==
    IF variant = "dense" /\ ~initialTilesLoaded
    THEN MapGet(initialTileFiles, TileKey(t.x, t.y))
    ELSE MapGet(allTileFiles, TileKey(t.x, t.y))

\* navigate(direction): an alert while no tile exists; otherwise the
\* destination becomes the current tile if Accepts, and loadCurrentTile
\* (not awaited) clears the resident point clouds and starts the first
\* load, or focuses at once when the tile has nothing to load
navigate(direction) ==
    /\ ~hung
    /\ UNCHANGED idxVars
    /\ nMoves < (IF nSel > 1 THEN MaxReMoves ELSE MaxMoves)
    /\ Len(tasks) < MaxInFlight
    /\ LET t == Destination(currentTile, direction)
           filesToLoad == FilesToLoad(t)
       IN IF NoTiles(allTileFiles)
          THEN /\ last' = Event("navigate", "alert")
               /\ UNCHANGED <<progVars, nMoves, act>>
          ELSE IF Accepts(t)
          THEN /\ currentTile' = t
               /\ currentPointClouds' = <<>>
               /\ scene' = RemoveEach(scene, currentPointClouds)
               /\ target' = IF filesToLoad = <<>>
                            THEN focusOnCurrentTile(t, tileSize, minX, minY) ELSE target
               /\ nMoves' = nMoves + 1
               /\ tasks' = IF filesToLoad = <<>> THEN tasks
                           ELSE Append([q \in 1..Len(tasks) |-> [tasks[q] EXCEPT !.cur = FALSE]],
                                       [files |-> filesToLoad, i |-> 1, cur |-> TRUE])
               /\ act' = [on |-> TRUE,
                          all |-> (variant # "dense" \/ initialTilesLoaded),
                          isolated |-> (tasks = <<>> /\ passes = <<>>),
                          stale |-> (tasks # <<>> /\ passes = <<>>),
                          want |-> FileNames(filesToLoad),
                          tried |-> IF filesToLoad = <<>> THEN {} ELSE {filesToLoad[1].file},
                          failed |-> {},
                          settled |-> (filesToLoad = <<>>)]
               /\ last' = Event("navigate", "accepted")
               /\ allTileFiles' = StoreAfterGet(allTileFiles, TileKey(t.x, t.y))
               /\ UNCHANGED <<variant, plyFiles, fileCoordinates,
                              initialTileFiles, initialTilesLoaded, tileSize, minX, maxX,
                              minY, maxY, passes, hung>>
          ELSE /\ last' = Event("navigate",
                                IF variant = "dense" \/ ~InFixedGrid(t)
                                THEN "rejected" ELSE "nofile")
               /\ UNCHANGED <<progVars, nMoves, act>>
    /\ UNCHANGED <<maxSel, nSel, nFail, track>>

\* loadCurrentTile: the awaited load of task t settles.  On success the
\* point cloud becomes resident and the loop starts the next load, or ends
\* and focusOnCurrentTile runs; on an error the promise rejects and
\* loadCurrentTile ends there.
loadSettled(t, ok) ==
    /\ ~hung
    /\ UNCHANGED idxVars
    /\ t \in 1..Len(tasks)
    /\ ok \/ nFail < MaxFailures
    /\ LET r == tasks[t]
           tf == r.files[r.i]
           more == r.i < Len(r.files)
       IN /\ IF ok
             THEN /\ currentPointClouds' = Append(currentPointClouds, Points(tf, tileSize))
                  /\ scene' = Append(scene, Points(tf, tileSize))
                  /\ tasks' = IF more THEN [tasks EXCEPT ![t].i = r.i + 1]
                              ELSE SeqRemove(tasks, t)
                  /\ target' = IF more THEN target
                               ELSE focusOnCurrentTile(currentTile, tileSize, minX, minY)
             ELSE /\ tasks' = SeqRemove(tasks, t)
                  /\ UNCHANGED <<currentPointClouds, scene, target>>
          /\ act' = IF ~r.cur THEN act
                    ELSE IF ok
                    THEN [act EXCEPT !.tried = IF more THEN @ \cup {r.files[r.i + 1].file} ELSE @,
                                     !.settled = ~more]
                    ELSE [act EXCEPT !.failed = @ \cup {tf.file}, !.settled = TRUE]
    /\ nFail' = IF ok THEN nFail ELSE nFail + 1
    /\ last' = Event("load", IF ok THEN "ok" ELSE "error")
    /\ UNCHANGED <<variant, plyFiles, fileCoordinates, allTileFiles, initialTileFiles,
                   initialTilesLoaded, currentTile, tileSize, minX, maxX, minY, maxY,
                   passes, hung, maxSel, nSel, nMoves, track>>

Next ==
    \/ \E files \in Collections(variant) : handleFolderSelection(files)
    \/ \E p \in 1..Len(passes), ok \in BOOLEAN : extractNext(p, ok)
    \/ \E p \in 1..Len(passes), ok \in BOOLEAN : extractLast(p, ok)
    \/ \E p \in 1..Len(passes), ok \in BOOLEAN : initialLoadSettled(p, ok)
    \/ \E direction \in Directions : navigate(direction)
    \/ \E t \in 1..Len(tasks), ok \in BOOLEAN : loadSettled(t, ok)

Spec == Init /\ [][Next]_vars

SpecReselect == InitReselect /\ [][Next]_vars

\* A session with one folder selection in which every load comes back: a
\* pending loadFileForTile eventually settles, with success or with an
\* error.
SpecLive ==
    /\ Init /\ [][Next]_vars
    /\ WF_vars(\E p \in 1..Len(passes), ok \in BOOLEAN : initialLoadSettled(p, ok))
    /\ WF_vars(\E t \in 1..Len(tasks), ok \in BOOLEAN : loadSettled(t, ok))

\* ------------------------------------------------------ the fileIndex class
\* this.mergeDistance
mergeDistance == 15

\* the folders the user can select: the .ply files in the order the browser
\* lists them, by name; the empty sequence is a folder without .ply files
IdxCollections == {<<>>, <<1>>, <<2, 1>>, <<3, 1, 2>>}

IdxDirections == {"left", "right", "up", "down", "forward", "backward"}

\* files.sort((a, b) => a.name.localeCompare(b.name)) for distinct names
RECURSIVE SortByName(_)
SortByName(files) ==
    IF files = <<>> THEN <<>>
    ELSE LET lo == SetMin(Range(files))
         IN <<lo>> \o SortByName(RemoveOne(files, lo))

\* navigate's switch: the offset of the adjacent file
IdxOffset(direction) ==
    CASE direction = "right" -> Offset3(mergeDistance, 0, 0)
      [] direction = "left" -> Offset3(0 - mergeDistance, 0, 0)
      [] direction = "up" -> Offset3(0, mergeDistance, 0)
      [] direction = "down" -> Offset3(0, 0 - mergeDistance, 0)
      [] direction = "forward" -> Offset3(0, 0, mergeDistance)
      [] direction = "backward" -> Offset3(0, 0, 0 - mergeDistance)

\* navigate's switch: nextIndex
NextIndex(direction, cur, n) ==
    IF direction \in {"right", "up", "forward"}
    THEN (cur + 1) % n
    ELSE (cur - 1 + n) % n

\* a loadAndVisualizeFile call in flight: the Points object it will create,
\* its file and offset, and what navigate's then() will store (nav is FALSE
\* for the call of handleFolderSelection, which has no then)
Load(id, file, offset, nav, nextIndex) ==
    [points |-> id, file |-> file, offset |-> offset, nav |-> nav, nextIndex |-> nextIndex]

\* handleFolderSelection(event) of the fileIndex class: with no .ply file it
\* alerts and returns; otherwise it stores the sorted files, resets the
\* index, clearAllPointClouds removes every Points object from the scene,
\* and the load of the first file starts at offset (0, 0, 0)
idxHandleFolderSelection(files) ==
    /\ variant = "fileIndex"
    /\ nIdxSel < MaxIdxSelections
    /\ Len(loads) < MaxIdxLoads
    /\ IF Len(files) = 0
       THEN /\ idxLast' = Event("select", "alert")
            /\ UNCHANGED <<idxProgVars, nIdxSel, nIdxLoads>>
       ELSE /\ idxFiles' = SortByName(files)
            /\ currentFileIndex' = 0
            /\ idxScene' = {}
            /\ loadedPointClouds' = EmptyMap
            /\ currentPointCloud' = NoCloud
            /\ adjacentPointCloud' = NoCloud
            /\ loads' = Append(loads, Load(nIdxLoads + 1, SortByName(files)[1],
                                            Offset3(0, 0, 0), FALSE, 0))
            /\ nIdxLoads' = nIdxLoads + 1
            /\ nIdxSel' = nIdxSel + 1
            /\ idxLast' = Event("select", "ok")
            /\ UNCHANGED idxTarget
    /\ UNCHANGED <<nIdxMoves, nIdxFail>>

\* navigate(direction) of the fileIndex class: an alert while no file is
\* loaded; otherwise the adjacent point cloud, if any, leaves the scene and
\* loadedPointClouds, and the load of plyFiles[nextIndex] starts at the
\* offset of the direction
idxNavigate(direction) ==
    /\ variant = "fileIndex"
    /\ nIdxMoves < MaxIdxMoves
    /\ Len(loads) < MaxIdxLoads
    /\ IF Len(idxFiles) = 0
       THEN /\ idxLast' = Event("navigate", "alert")
            /\ UNCHANGED <<idxProgVars, nIdxMoves, nIdxLoads>>
       ELSE LET nextIndex == NextIndex(direction, currentFileIndex, Len(idxFiles))
                adj == adjacentPointCloud
            IN /\ idxScene' = IF adj = NoCloud THEN idxScene
                              ELSE {c \in idxScene : c.points # adj.points}
               /\ loadedPointClouds' =
                     IF adj = NoCloud THEN loadedPointClouds
                     ELSE [k \in DOMAIN loadedPointClouds \ {adj.name} |-> loadedPointClouds[k]]
               /\ adjacentPointCloud' = NoCloud
               /\ loads' = Append(loads, Load(nIdxLoads + 1, idxFiles[nextIndex + 1],
                                               IdxOffset(direction), TRUE, nextIndex))
               /\ nIdxLoads' = nIdxLoads + 1
               /\ nIdxMoves' = nIdxMoves + 1
               /\ idxLast' = Event("navigate", "started")
               /\ UNCHANGED <<idxFiles, currentFileIndex, currentPointCloud, idxTarget>>
    /\ UNCHANGED <<nIdxSel, nIdxFail>>

\* loadAndVisualizeFile: the loader of call l calls back.  On success the
\* Points object is stored under the file name, joins the scene, becomes
\* the current (offset zero) or the adjacent point cloud, the camera
\* targets the offset, and navigate's then() stores nextIndex; on an error
\* the promise rejects and navigate's catch() only reports it.
loadAndVisualizeFile(l, ok) ==
    /\ variant = "fileIndex"
    /\ l \in 1..Len(loads)
    /\ ok \/ nIdxFail < MaxIdxFailures
    /\ LET r == loads[l]
           cloud == [name |-> r.file, points |-> r.points]
       IN /\ loads' = SeqRemove(loads, l)
          /\ IF ok
             THEN /\ loadedPointClouds' = MapSet(loadedPointClouds, r.file, r.points)
                  /\ idxScene' = idxScene \cup
                                    {[points |-> r.points, name |-> r.file, offset |-> r.offset]}
                  /\ IF r.offset = Offset3(0, 0, 0)
                     THEN currentPointCloud' = cloud /\ UNCHANGED adjacentPointCloud
                     ELSE adjacentPointCloud' = cloud /\ UNCHANGED currentPointCloud
                  /\ idxTarget' = r.offset
                  /\ currentFileIndex' = IF r.nav THEN r.nextIndex ELSE currentFileIndex
             ELSE UNCHANGED <<loadedPointClouds, idxScene, currentPointCloud,
                              adjacentPointCloud, idxTarget, currentFileIndex>>
          /\ idxLast' = Event(IF r.nav THEN "adjacent" ELSE "first", IF ok THEN "ok" ELSE "error")
    /\ nIdxFail' = IF ok THEN nIdxFail ELSE nIdxFail + 1
    /\ UNCHANGED <<idxFiles, nIdxSel, nIdxMoves, nIdxLoads>>

\* the tile classes rest while the fileIndex class runs
TileVars == <<plyFiles, fileCoordinates, allTileFiles, initialTileFiles, initialTilesLoaded,
              currentTile, tileSize, minX, maxX, minY, maxY, currentPointClouds, scene,
              target, passes, tasks, hung, maxSel, nSel, nMoves, nFail, last, track, act>>

InitFileIndex ==
    /\ variant = "fileIndex"
    /\ TileConstructed(0)
    /\ IdxConstructed

NextFileIndex ==
    \/ \E files \in IdxCollections :
          idxHandleFolderSelection(files) /\ UNCHANGED <<variant, TileVars>>
    \/ \E direction \in IdxDirections :
          idxNavigate(direction) /\ UNCHANGED <<variant, TileVars>>
    \/ \E l \in 1..Len(loads), ok \in BOOLEAN :
          loadAndVisualizeFile(l, ok) /\ UNCHANGED <<variant, TileVars>>

\* a session of the fileIndex class
SpecFileIndex == InitFileIndex /\ [][NextFileIndex]_vars

\* --------------------------------------------------------------- properties
\* the names of the resident datasets
Resident == {currentPointClouds[i].name : i \in 1..Len(currentPointClouds)}

\* the names of the datasets the tile store assigns to tile t
Assigned(t) == Range(FileNames(MapGet(allTileFiles, TileKey(t.x, t.y))))

\* the places (tile key, position) of the tile store, and those that hold f
Slots == UNION {{<<k, i>> : i \in 1..Len(allTileFiles[k])} : k \in DOMAIN allTileFiles}
SlotsOf(f) == {s \in Slots : allTileFiles[s[1]][s[2]].file = f}
AllAssigned == {allTileFiles[s[1]][s[2]].file : s \in Slots}

\* t lies inside the grid: [0, gridWidth) x [0, gridHeight) with gridWidth =
\* ceil((maxX - minX) / tileSize) in the dense variant, [0,3) x [0,3) in the
\* fixed3x3 variant
InGrid(t) == IF variant = "dense" THEN isValidTilePosition(t.x, t.y) ELSE InFixedGrid(t)

\* the datasets of the last analysed collection whose extraction succeeded
Succeeded == Range(track.files) \ track.failed

\* C1: when the activation started by an accepted navigate in mode 'all',
\* with no other load or analysis in flight, has settled, the resident
\* datasets are exactly those of the current tile minus those whose load
\* failed.
C1_ResidentSetConsistency ==
    (act.on /\ act.all /\ act.isolated /\ act.settled)
        => Resident = Assigned(currentTile) \ act.failed

\* C2: a navigate call made while the current tile is inside the grid
\* leaves the current tile inside the grid.
C2_BoundaryRejection ==
    [][((\E d \in Directions : navigate(d)) /\ DOMAIN allTileFiles # {}
         /\ InGrid(currentTile)) => InGrid(currentTile')]_vars

\* C3: after the dense organize of a collection with unique names, every
\* dataset whose extraction succeeded is at exactly one place of the tile
\* store, and the tiles together hold exactly the collection minus the
\* datasets whose extraction failed.
C3_PartitionInvariant ==
    (variant = "dense" /\ track.organized /\ track.clean)
        => /\ \A f \in Succeeded : Cardinality(SlotsOf(f)) = 1
           /\ AllAssigned = Succeeded

\* C3 witness: a dense organize after an extraction failure that leaves two
\* datasets in one tile
C3_Witness ==
    /\ variant = "dense" /\ track.organized /\ track.clean
    /\ track.failed # {}
    /\ \E k \in DOMAIN allTileFiles : Len(allTileFiles[k]) = 2

\* C4: when an accepted move was issued while loads of an earlier move were
\* in flight, then once all loads have settled the resident datasets are
\* all datasets of the current tile.
C4_StalePlanUnloaded ==
    (act.on /\ act.stale /\ tasks = <<>>) => Resident \subseteq Assigned(currentTile)

\* C5: when a load of an activation has failed and the activation has
\* settled, the failed dataset is not resident and the load of every other
\* dataset of the activated tile was started.
C5_PartialFailureTolerance ==
    (act.on /\ act.isolated /\ act.settled /\ act.failed # {})
        => /\ Resident \cap act.failed = {}
           /\ Range(act.want) \subseteq act.tried

\* C6: with a tile size above zero, a navigate call whose destination lies
\* outside the grid changes nothing of the program's state.
C6_OutOfBoundsRejected ==
    [][\A d \in Directions :
          (navigate(d) /\ DOMAIN allTileFiles # {} /\ tileSize.n > 0
             /\ ~InGrid(Destination(currentTile, d)))
              => UNCHANGED progVars]_vars

\* C7: in the dense variant a navigate call whose destination is inside the
\* grid and has no dataset makes the destination the current tile, starts no
\* load, and leaves no dataset resident.
C7_EmptyTileAccepted ==
    [][\A d \in Directions :
          LET t == Destination(currentTile, d)
          IN (navigate(d) /\ variant = "dense" /\ DOMAIN allTileFiles # {}
                /\ isValidTilePosition(t.x, t.y) /\ Assigned(t) = {})
                 => (currentTile' = t /\ currentPointClouds' = <<>> /\ tasks' = tasks)]_vars

\* C7 witness: the dense variant right after an accepted move to a tile
\* inside the grid that has no dataset
C7_Witness ==
    /\ variant = "dense"
    /\ last = Event("navigate", "accepted")
    /\ act.on /\ act.want = <<>>
    /\ isValidTilePosition(currentTile.x, currentTile.y)
    /\ Assigned(currentTile) = {}
    /\ currentPointClouds = <<>>

\* C8: in the fixed3x3 variant a navigate call whose destination is inside
\* [0,3) x [0,3) and has no dataset leaves the current tile, the resident
\* datasets, the scene, the loads in flight and the focus as they are.
C8_EmptyTileRejected ==
    [][\A d \in Directions :
          LET t == Destination(currentTile, d)
          IN (navigate(d) /\ variant = "fixed3x3" /\ DOMAIN allTileFiles # {}
                /\ InFixedGrid(t) /\ Assigned(t) = {})
                 => UNCHANGED <<currentTile, currentPointClouds, scene, tasks, target>>]_vars

\* C8 witness: the fixed3x3 variant right after a move to an empty tile of
\* the grid was refused, with a dataset still resident
C8_Witness ==
    /\ variant = "fixed3x3"
    /\ last = Event("navigate", "nofile")
    /\ currentPointClouds # <<>>

\* C9: after the fixed3x3 organize the tile store holds exactly the nine
\* keys x,y with x, y in 0..2, every tile holds at most one dataset, at most
\* nine datasets are assigned, and none of them is at position 9 or later
\* (counted from 0) of the collection.
C9_FixedGridCap ==
    (variant = "fixed3x3" /\ track.organized)
        => /\ DOMAIN allTileFiles = {TileKey(Num(x), Num(y)) : x, y \in 0..2}
           /\ \A k \in DOMAIN allTileFiles : Len(allTileFiles[k]) <= 1
           /\ Cardinality(Slots) <= 9
           /\ \A i \in 10..Len(track.files) : track.files[i] \notin AllAssigned

\* C9 witness: a fixed3x3 organize of more than nine datasets that fills
\* all nine tiles
C9_Witness ==
    /\ variant = "fixed3x3" /\ track.organized
    /\ Len(track.files) > 9
    /\ Cardinality(AllAssigned) = 9

\* C10: when the extraction failed for some but not all datasets of a
\* collection, the organize still ran, no failed dataset is in a tile, and
\* every other dataset has its coordinates stored and is in a tile (in the
\* fixed3x3 variant: if it is among the first nine of the collection).
C10_ExtractionFailureNonFatal ==
    (track.clean /\ track.failed # {} /\ Succeeded # {})
        => /\ track.organized
           /\ AllAssigned \cap track.failed = {}
           /\ \A i \in 1..Len(track.files) :
                 track.files[i] \in Succeeded
                     => /\ track.files[i] \in Range(fileCoordinates)
                        /\ (variant = "dense" \/ i <= 9) => track.files[i] \in AllAssigned

\* C10 witness: an analysis with a failed extraction after which two other
\* datasets are in tiles
C10_Witness ==
    /\ track.clean /\ track.failed # {} /\ track.organized
    /\ Cardinality(AllAssigned) >= 2

\* C11: after an analysis pass of a non-empty collection in which every
\* extraction failed, the tile store holds no tile and no first file of a
\* tile is recorded for loading.
C11_EmptyInputNoGrid ==
    (track.files # <<>> /\ track.clean /\ Succeeded = {})
        => (DOMAIN allTileFiles = {} /\ DOMAIN initialTileFiles = {})

\* what an analysis of the collection files, with the extractions of failed
\* failing, leaves on a freshly constructed visualizer
FreshAnalysis(files, failed) ==
    LET fc == SelectSeq(files, LAMBDA f : f \notin failed)
        fr == GridFrame(variant, fc)
    IN IF fc = <<>>
       THEN <<0, 0, 0, 0, [n |-> 50, d |-> 1], EmptyMap, [x |-> Num(0), y |-> Num(0)]>>
       ELSE <<fr.minX, fr.maxX, fr.minY, fr.maxY, fr.tileSize,
              IF variant = "dense" THEN DenseTiles(fc, files, fr) ELSE FixedTiles(fc, files),
              InitialTile(variant, fr)>>

\* C12: right after an analysis pass that no other pass overlapped, the
\* bounds, the tile size, the tile store and the current tile are those the
\* same collection with the same extraction outcomes gives on a freshly
\* constructed visualizer.
C12_Determinism ==
    (last.op = "analysed" /\ track.clean)
        => <<minX, maxX, minY, maxY, tileSize, allTileFiles, currentTile>>
               = FreshAnalysis(track.files, track.failed)

\* C13: after an analysis pass with at least one extracted bounding box the
\* tile size is above zero.
C13_TileSizePositive == track.organized => tileSize.n > 0

\* the change of x and of y the claim C14 gives for a direction
StepX(d) == CASE d = "left" -> -1 [] d = "right" -> 1 [] OTHER -> 0
StepY(d) == CASE d = "up" -> 1 [] d = "down" -> -1 [] OTHER -> 0

\* C14: an accepted navigate(d) from the tile (x, y) makes the current tile
\* (x - 1, y) for left, (x + 1, y) for right, (x, y + 1) for up and
\* (x, y - 1) for down.
C14_MoveSemantics ==
    [][\A d \in Directions :
          (navigate(d) /\ last' = Event("navigate", "accepted")
             /\ IsNum(currentTile.x) /\ IsNum(currentTile.y))
              => currentTile' = [x |-> Num(currentTile.x.v + StepX(d)),
                                 y |-> Num(currentTile.y.v + StepY(d))]]_vars

\* C14 witness: the first accepted move of a session was navigate('down')
\* from the initial tile (1, 1)
C14_Witness ==
    /\ last = Event("navigate", "accepted")
    /\ nMoves = 1
    /\ track.organized /\ tileSize.n > 0
    /\ currentTile = [x |-> Num(1), y |-> Num(0)]


\* the number of tiles of size tileSize that cover hi - lo: the least w with
\* w * tileSize >= hi - lo (tileSize above zero)
TilesAcross(lo, hi) ==
    CHOOSE w \in 0..((hi - lo) * tileSize.d + 1) :
        /\ w * tileSize.n >= (hi - lo) * tileSize.d
        /\ \A u \in 0..(w - 1) : u * tileSize.n < (hi - lo) * tileSize.d

\* C15: right after an analysis that organized the tiles, the current tile
\* is (floor(gridWidth / 2), floor(gridHeight / 2)) in the dense variant
\* (tile size above zero) and (1, 1) in the fixed3x3 variant, wherever the
\* current tile was before.
C15_InitialTile ==
    (last.op = "analysed" /\ track.organized)
        => IF variant = "dense"
           THEN tileSize.n > 0
                  => currentTile = [x |-> Num(TilesAcross(minX, maxX) \div 2),
                                    y |-> Num(TilesAcross(minY, maxY) \div 2)]
           ELSE currentTile = [x |-> Num(1), y |-> Num(1)]

\* C15 witness: a second analysis has just organized the tiles of a dense
\* collection after a move was accepted
C15_Witness ==
    /\ variant = "dense"
    /\ last.op = "analysed" /\ track.organized /\ tileSize.n > 0
    /\ nSel = 2 /\ nMoves = 1


C17_TileStoreImmutable ==
    [][(\/ \E d \in Directions : navigate(d)
        \/ \E t \in 1..Len(tasks), ok \in BOOLEAN : loadSettled(t, ok)
        \/ \E p \in 1..Len(passes), ok \in BOOLEAN : initialLoadSettled(p, ok))
          => UNCHANGED <<allTileFiles, minX, maxX, minY, maxY, tileSize>>]_vars

\* C17 witness: two moves were accepted and a load of the second one has
\* just failed
C17_Witness ==
    /\ last = Event("load", "error")
    /\ nMoves = 2 /\ act.on /\ act.failed # {}
    /\ \E k \in DOMAIN allTileFiles : Len(allTileFiles[k]) > 0


\* C18: when the analysis of a second collection has organized its tiles
\* and every pass and every load has ended, the tile store and the resident
\* datasets hold datasets of that collection only.
C18_ReanalysisDiscardsOld ==
    (nSel = 2 /\ passes = <<>> /\ tasks = <<>>
       /\ track.files = plyFiles /\ track.clean /\ track.organized)
        => (AllAssigned \subseteq Range(plyFiles) /\ Resident \subseteq Range(plyFiles))


\* C19: whenever an analysis pass has just organized the tiles, the
\* coordinates it computed them from are exactly the extraction results of
\* that pass's collection, and that collection is the selected one.
C19_ExtractionBarrier ==
    (last.op = "analysed" /\ track.organized)
        => (Range(fileCoordinates) = Succeeded /\ plyFiles = track.files)


\* the center tile of the grid: (floor(gridWidth / 2), floor(gridHeight / 2))
\* in the dense variant, (1, 1) in the fixed3x3 variant
GridCenter ==
    IF variant = "dense"
    THEN [x |-> TilesAcross(minX, maxX) \div 2, y |-> TilesAcross(minY, maxY) \div 2]
    ELSE [x |-> 1, y |-> 1]

\* (c - center) * tileSize
OffsetFrom(c, center) == Real((c.v - center) * tileSize.n, tileSize.d)

\* C20: in the fixed3x3 variant every resident dataset is placed at
\* ((tileX - 1) * tileSize, (tileY - 1) * tileSize) for the tile it is
\* assigned to, (1, 1) being the center tile, and when an activation has
\* settled without a failure the focus target is that offset for the current
\* tile.
C20_PositionOffset ==
    (variant = "fixed3x3" /\ track.organized)
        => /\ \A i \in 1..Len(currentPointClouds) :
                \A s \in SlotsOf(currentPointClouds[i].name) :
                    LET tf == allTileFiles[s[1]][s[2]]
                    IN /\ currentPointClouds[i].x = OffsetFrom(tf.tileX, 1)
                       /\ currentPointClouds[i].y = OffsetFrom(tf.tileY, 1)
           /\ (act.on /\ act.isolated /\ act.settled /\ act.failed = {})
                 => /\ target.x = OffsetFrom(currentTile.x, 1)
                    /\ target.y = OffsetFrom(currentTile.y, 1)

\* a move to a tile beside the center has settled with its dataset resident
\* at an offset other than (0, 0)
C20_Witness ==
    /\ variant = "fixed3x3"
    /\ track.organized
    /\ act.on /\ act.isolated /\ act.settled /\ act.failed = {}
    /\ nMoves = 1
    /\ tileSize.n > 0
    /\ currentPointClouds # <<>>
    /\ target # [x |-> Real(0, 1), y |-> Real(0, 1)]
    /\ \A i \in 1..Len(currentPointClouds) :
          /\ currentPointClouds[i].x = target.x
          /\ currentPointClouds[i].y = target.y

\* C20 as stated for both variants: with the tiles organized and a tile size
\* above zero, every resident dataset is placed at ((tileX - gridCenterX) *
\* tileSize, (tileY - gridCenterY) * tileSize) and the focus target of a
\* settled activation is that offset for the current tile.
C20_OffsetBothVariants ==
    (track.organized /\ tileSize.n > 0)
        => /\ \A i \in 1..Len(currentPointClouds) :
                \A s \in SlotsOf(currentPointClouds[i].name) :
                    LET tf == allTileFiles[s[1]][s[2]]
                    IN /\ currentPointClouds[i].x = OffsetFrom(tf.tileX, GridCenter.x)
                       /\ currentPointClouds[i].y = OffsetFrom(tf.tileY, GridCenter.y)
           /\ (act.on /\ act.isolated /\ act.settled /\ act.failed = {})
                 => /\ target.x = OffsetFrom(currentTile.x, GridCenter.x)
                    /\ target.y = OffsetFrom(currentTile.y, GridCenter.y)

\* C21: during an activation started while no analysis was in flight, the
\* resident datasets never mix datasets of the current tile with datasets
\* that are not of the current tile: what was resident before the activation
\* is gone before a dataset of the new tile arrives.
C21_UnloadBeforeLoad ==
    (act.on /\ (act.isolated \/ act.stale))
        => ~(/\ Resident \cap Assigned(currentTile) # {}
             /\ Resident \ Assigned(currentTile) # {})

\* the first dataset of every non-empty tile at most one step away from the
\* current tile on each axis (dense), of the current tile (fixed3x3)
FirstOfInitialTiles ==
    IF variant = "dense"
    THEN {allTileFiles[k][1].file : k \in
             {q \in DOMAIN allTileFiles :
                 /\ Len(allTileFiles[q]) > 0
                 /\ IsNum(currentTile.x) /\ IsNum(currentTile.y)
                 /\ IsNum(allTileFiles[q][1].tileX) /\ IsNum(allTileFiles[q][1].tileY)
                 /\ Abs(allTileFiles[q][1].tileX.v - currentTile.x.v) <= 1
                 /\ Abs(allTileFiles[q][1].tileY.v - currentTile.y.v) <= 1}}
    ELSE {allTileFiles[k][1].file : k \in
             {q \in DOMAIN allTileFiles : q = "1,1" /\ Len(allTileFiles[q]) > 0}}

\* C22: when loadInitialTiles has returned and no move was made since the
\* analysis, the resident datasets are exactly the first dataset of every
\* non-empty tile around the initial tile (dense) or of tile (1,1)
\* (fixed3x3), each once, so at most one dataset per tile is resident.
C22_FirstOnlyInitialPass ==
    (initialTilesLoaded /\ passes = <<>> /\ nMoves = 0)
        => /\ Resident = FirstOfInitialTiles
           /\ Len(currentPointClouds) = Cardinality(Resident)
           /\ \A k \in DOMAIN allTileFiles :
                 Cardinality(Resident \cap Range(FileNames(allTileFiles[k]))) <= 1

\* the initial pass has returned with a dataset resident that is the first
\* of a tile holding two datasets, while another tile's dataset is not
\* resident
C22_Witness ==
    /\ initialTilesLoaded /\ passes = <<>> /\ nMoves = 0
    /\ last = Event("initialLoad", "ok")
    /\ \E k \in DOMAIN allTileFiles :
          /\ Len(allTileFiles[k]) = 2
          /\ allTileFiles[k][1].file \in Resident
          /\ allTileFiles[k][2].file \notin Resident

\* C23: after the load of a dataset has failed (no extraction failed, so
\* the one loader error of the session was a load), an activation started
\* by a later accepted move with nothing else in flight, once settled
\* without a failure of its own, has every dataset of the current tile
\* resident.
C23_LoadErrorNonFatal ==
    (/\ track.organized /\ track.failed = {} /\ nFail > 0
     /\ act.on /\ act.isolated /\ act.settled /\ act.failed = {})
        => Assigned(currentTile) \subseteq Resident

\* the position of e in the sequence s
IndexIn(s, e) == CHOOSE i \in 1..Len(s) : s[i] = e

\* C24: after the dense organize of a collection, the datasets of every
\* tile stand in the tile's array in the order they have in the collection.
C24_TileOrderIsInputOrder ==
    (variant = "dense" /\ track.organized /\ track.clean)
        => \A k \in DOMAIN allTileFiles :
              \A i, j \in 1..Len(allTileFiles[k]) :
                 i < j => IndexIn(track.files, allTileFiles[k][i].file)
                              < IndexIn(track.files, allTileFiles[k][j].file)

\* the collection [2, 1, 3] organized: file 2 stands before file 1 in their
\* common tile
C24_Witness ==
    /\ variant = "dense" /\ track.organized /\ track.clean
    /\ track.files = <<2, 1, 3>>
    /\ \E k \in DOMAIN allTileFiles : FileNames(allTileFiles[k]) = <<2, 1>>

\* C25: while the tile store is empty, a navigate call in any direction is
\* refused with the alert: the current tile stays (0,0), no dataset is
\* resident, no load is in flight and nothing of the program's state
\* changes.
C25_NavigateBeforeAnalysis ==
    [][\A d \in Directions :
          (navigate(d) /\ DOMAIN allTileFiles = {})
              => /\ last' = Event("navigate", "alert")
                 /\ UNCHANGED progVars
                 /\ currentTile' = [x |-> Num(0), y |-> Num(0)]
                 /\ currentPointClouds' = <<>> /\ scene' = <<>> /\ tasks' = <<>>]_vars

\* a navigate call was refused after an analysis in which every extraction
\* failed
C25_Witness ==
    /\ last = Event("navigate", "alert")
    /\ track.files # <<>> /\ ~track.organized
    /\ DOMAIN allTileFiles = {}
    /\ currentTile = [x |-> Num(0), y |-> Num(0)]

\* C26: after the dense organize of a collection, with a tile size above
\* zero, every tile that holds a dataset lies inside the grid:
\* 0 <= tileX < ceil((maxX - minX) / tileSize) and the same for y.
C26_AssignedTilesInGrid ==
    (variant = "dense" /\ track.organized /\ track.clean /\ tileSize.n > 0)
        => \A s \in Slots :
              isValidTilePosition(allTileFiles[s[1]][s[2]].tileX,
                                  allTileFiles[s[1]][s[2]].tileY)

\* C27: the tile an analysis makes current is a position the navigator
\* accepts: in the dense variant it satisfies isValidTilePosition, in the
\* fixed3x3 variant it passes the test navigate applies to a destination.
C27_InitialTileValid ==
    (last.op = "analysed" /\ track.organized)
        => IF variant = "dense"
           THEN isValidTilePosition(currentTile.x, currentTile.y)
           ELSE Accepts(currentTile)

\* the tiles that accepted moves can make current, starting in a tile of S
RECURSIVE ReachableFrom(_)
ReachableFrom(S) ==
    LET step == {Destination(c, d) : c \in S, d \in Directions}
        more == S \cup {t \in step : Accepts(t)}
    IN IF more = S THEN S ELSE ReachableFrom(more)

\* C28: right after an analysis, every tile that holds a dataset is the
\* initial tile or can be made the current tile by a sequence of accepted
\* moves from the initial tile.
C28_EveryTileReachable ==
    (last.op = "analysed" /\ track.organized)
        => \A s \in Slots :
              [x |-> allTileFiles[s[1]][s[2]].tileX, y |-> allTileFiles[s[1]][s[2]].tileY]
                  \in ReachableFrom({currentTile})

\* C29: in every reachable state the point clouds among the children of
\* the scene are the point clouds of currentPointClouds.
C29_SceneAgreesWithResident ==
    scene = currentPointClouds

\* the loads of two overlapping activations have both arrived, after the
\* second activation cleared the scene
C29_Witness ==
    /\ act.on /\ act.stale /\ tasks = <<>>
    /\ Len(currentPointClouds) = 2
    /\ scene = currentPointClouds

\* C30: in every reachable state with a tile size above zero, no dataset
\* has more than one point cloud in currentPointClouds.
C30_NoDoubleResidency ==
    tileSize.n > 0 => Len(currentPointClouds) = Cardinality(Resident)

\* the camera target is the focus point of the tile that is current
Focused == target = focusOnCurrentTile(currentTile, tileSize, minX, minY)

\* C31: when every loader call comes back, an accepted move is eventually
\* followed by a state in which the camera target is the focus point of the
\* current tile.
C31_ActivationEndsWithFocus ==
    (last = Event("navigate", "accepted")) ~> Focused

\* C32: in the fileIndex class, with n >= 1 files loaded, currentFileIndex
\* is an index of plyFiles: 0 <= currentFileIndex < n.
C32_FileIndexInRange ==
    Len(idxFiles) >= 1 => currentFileIndex \in 0..(Len(idxFiles) - 1)

\* the Points objects in the scene that were loaded at a non-zero offset
AdjacentInScene == {c \in idxScene : c.offset # Offset3(0, 0, 0)}

\* C33: in the fileIndex class the scene holds at most one point cloud
\* loaded at a non-zero offset, and it is the one adjacentPointCloud
\* references.
C33_OneAdjacentPointCloud ==
    /\ Cardinality(AdjacentInScene) <= 1
    /\ \A c \in AdjacentInScene : adjacentPointCloud.points = c.points

====
